---- MODULE Spec2Model ----
(***************************************************************************)
(* Model of the blocking SPI device contract (src/spi/blocking.rs):        *)
(* SpiDevice::transaction and its convenience methods, the                 *)
(* ExclusiveDeviceError classification and ExclusiveDevice::transaction.   *)
(* The CS pin (OutputPin), the bus (SpiBus) and the closure handed to      *)
(* transaction are type parameters of the code: they are modelled as       *)
(* environments whose every outcome is enumerated.                         *)
(***************************************************************************)
EXTENDS Integers, Sequences, FiniteSets, TLC

\* Bound: the number of bus operations one caller-supplied closure performs.
MaxBusOps == 2

\* Word buffers handed to bus operations (0x90 = 144 is the byte of the doc example).
Bufs == {<< >>, <<144>>}

\* Success values a caller-supplied closure returns (type parameter R).
Values == {"v1", "v2"}

\* The success value of the bus operations, Result<(), _>.
Unit == "()"

\* Errors of the bus (BUS::Error) and of the CS pin (CS::Error): type parameters.
BusErrors == {"bus_frame", "bus_other"}
CsErrors == {"pin_a", "pin_b"}

\* spi::ErrorKind
ErrorKind == {"ModeFault", "Overrun", "FrameFormat", "ChipSelectFault", "Other"}

\* <BUS as Error>::kind: the bus's own classification of its errors.
BusKind(e) == IF e = "bus_frame" THEN "FrameFormat" ELSE "Other"

\* Result values: Ok(v), Err(e) of the closure and of the pin;
\* Err(ExclusiveDeviceError::Spi(e)), Err(ExclusiveDeviceError::Cs(c)) of the device.
None == [tag |-> "None", val |-> ""]
Ok(v) == [tag |-> "Ok", val |-> v]
Err(e) == [tag |-> "Err", val |-> e]
Spi(e) == [tag |-> "Spi", val |-> e]
Cs(c) == [tag |-> "Cs", val |-> c]

\* ExclusiveDeviceError::kind
kind_wrong(err) == "ChipSelectFault"
kind(err) == IF err.tag = "Spi" THEN BusKind(err.val) ELSE "ChipSelectFault"

\* The names of the bus operations, SpiBusRead / SpiBusWrite / SpiBus.
BusOps == {"read", "write", "transfer", "transfer_in_place"}

\* The argument lists a bus operation takes: one buffer, or (read, write) for transfer.
BusArgs(op) == IF op = "transfer" THEN {<<r, w>> : r \in Bufs, w \in Bufs}
                                  ELSE {<<b>> : b \in Bufs}

\* Closures handed to transaction: a caller-supplied one (any bus operations,
\* any result), or the one-operation closure `|bus| bus.op(args)` of a
\* convenience method.
UserClosure == [kind |-> "user", op |-> "", args |-> << >>]
BusOpClosure(op, args) == [kind |-> "bus_op", op |-> op, args |-> args]

VARIABLES
    pc,        \* position in the transaction: idle, cs_low, call_f, in_f, cs_high
    open,      \* number of transactions entered and not yet returned
    csLevel,   \* electrical level of the CS pin: "high" (inactive) or "low" (active)
    api,       \* the device method the caller invoked, with its arguments
    f,         \* the closure the running transaction was given
    f_res,     \* local f_res of transaction
    cs_res,    \* local cs_res of transaction
    result,    \* what the last transaction returned
    log,       \* events of the current (or last) transaction, in order
    req,       \* history: what a caller asked of a `&mut T` handle
    prev       \* history: how the transaction before the current one ended

vars == <<pc, open, csLevel, api, f, f_res, cs_res, result, log, req, prev>>

Event(ev, op, args, res) == [ev |-> ev, op |-> op, args |-> args, res |-> res]

BusEvents(l) == SelectSeq(l, LAMBDA e : e.ev = "bus")

\* Nothing was asked of a `&mut T` handle.
NoReq == [dev |-> "", g |-> UserClosure, n |-> 0, op |-> "", args |-> << >>, ret |-> None]

\* ExclusiveDevice::new stores the handles; the pin is handed over deasserted.
Init ==
    /\ pc = "idle"
    /\ open = 0
    /\ csLevel = "high"
    /\ api = [name |-> "", args |-> << >>]
    /\ f = UserClosure
    /\ f_res = None
    /\ cs_res = None
    /\ result = None
    /\ log = << >>
    /\ req = NoReq
    /\ prev = "none"

\* `&mut self`: a transaction can be entered only while no other borrow of the
\* device is live, i.e. no transaction on it is running.
ExclusiveBorrow_shared == TRUE
ExclusiveBorrow == open = 0

\* Variant of the entry for a device that remembers a chip-select failure: once
\* a transaction has returned Cs, the next one returns that error at once.
transaction_poisoned(g) ==
    /\ ExclusiveBorrow
    /\ f' = g
    /\ f_res' = None
    /\ cs_res' = None
    /\ log' = << >>
    /\ IF result.tag = "Cs"
         THEN /\ pc' = "idle"
              /\ result' = result
              /\ UNCHANGED open
         ELSE /\ pc' = "cs_low"
              /\ result' = None
              /\ open' = open + 1
    /\ UNCHANGED csLevel

\* Entry of ExclusiveDevice::transaction with closure g.
transaction(g) ==
    /\ ExclusiveBorrow
    /\ pc' = "cs_low"
    /\ open' = open + 1
    /\ f' = g
    /\ f_res' = None
    /\ cs_res' = None
    /\ result' = None
    /\ log' = << >>
    /\ UNCHANGED csLevel

\* A caller invokes device.transaction(closure) with a closure of its own.
Transaction ==
    /\ transaction(UserClosure)
    /\ api' = [name |-> "transaction", args |-> << >>]
    /\ UNCHANGED <<req, prev>>

\* SpiDevice::write
write_closure_wrong(buf) == BusOpClosure("read", <<buf>>)
write_closure(buf) == BusOpClosure("write", <<buf>>)
write(buf) ==
    /\ transaction(write_closure(buf))
    /\ api' = [name |-> "write", args |-> <<buf>>]

\* SpiDevice::read
read(buf) ==
    /\ transaction(BusOpClosure("read", <<buf>>))
    /\ api' = [name |-> "read", args |-> <<buf>>]

\* SpiDevice::transfer
transfer(rd, wr) ==
    /\ transaction(BusOpClosure("transfer", <<rd, wr>>))
    /\ api' = [name |-> "transfer", args |-> <<rd, wr>>]

\* SpiDevice::transfer_in_place
transfer_in_place(buf) ==
    /\ transaction(BusOpClosure("transfer_in_place", <<buf>>))
    /\ api' = [name |-> "transfer_in_place", args |-> <<buf>>]

Write == \E buf \in Bufs : write(buf) /\ UNCHANGED <<req, prev>>
Read == \E buf \in Bufs : read(buf) /\ UNCHANGED <<req, prev>>
Transfer == \E rd \in Bufs, wr \in Bufs : transfer(rd, wr) /\ UNCHANGED <<req, prev>>
TransferInPlace == \E buf \in Bufs : transfer_in_place(buf) /\ UNCHANGED <<req, prev>>

\* OutputPin::set_low / set_high as seen by the device: a successful call
\* drives the pin to the level; a failed one leaves it where it was or gets
\* it there anyway.
PinLevelAfter(level, target, res) ==
    IF res.tag = "Ok" THEN {target} ELSE {level, target}

PinResults == {Ok(Unit)} \cup {Err(c) : c \in CsErrors}

\* Variant of set_low that goes on to the closure although the pin failed.
set_low_ignoring_error ==
    /\ pc = "cs_low"
    /\ \E r \in PinResults :
        /\ csLevel' \in PinLevelAfter(csLevel, "low", r)
        /\ log' = Append(log, Event("set_low", "", << >>, r))
    /\ pc' = "call_f"
    /\ UNCHANGED <<open, api, f, f_res, cs_res, result, req, prev>>

\* Variant of set_low that tries again when the pin failed.
set_low_retry ==
    /\ pc = "cs_low"
    /\ \E r \in PinResults :
        /\ csLevel' \in PinLevelAfter(csLevel, "low", r)
        /\ log' = Append(log, Event("set_low", "", << >>, r))
        /\ pc' = IF r.tag = "Ok" \/ Len(log) >= 1 THEN "call_f" ELSE "cs_low"
    /\ UNCHANGED <<open, api, f, f_res, cs_res, result, req, prev>>

\* Variant of set_low that drives the pin back with set_high before it returns
\* the failure.
set_low_release_on_error ==
    /\ pc = "cs_low"
    /\ \E r \in PinResults :
        /\ IF r.tag = "Ok"
             THEN /\ csLevel' \in PinLevelAfter(csLevel, "low", r)
                  /\ log' = Append(log, Event("set_low", "", << >>, r))
                  /\ pc' = "call_f"
                  /\ UNCHANGED <<open, result>>
             ELSE /\ csLevel' = "high"
                  /\ log' = log \o <<Event("set_low", "", << >>, r),
                                     Event("set_high", "", << >>, Ok(Unit))>>
                  /\ pc' = "idle"
                  /\ open' = open - 1
                  /\ result' = Cs(r.val)
    /\ UNCHANGED <<api, f, f_res, cs_res, req, prev>>

\* self.cs.set_low().map_err(ExclusiveDeviceError::Cs)?
set_low ==
    /\ pc = "cs_low"
    /\ \E r \in PinResults :
        /\ csLevel' \in PinLevelAfter(csLevel, "low", r)
        /\ log' = Append(log, Event("set_low", "", << >>, r))
        /\ IF r.tag = "Ok"
             THEN /\ pc' = "call_f"
                  /\ UNCHANGED <<open, result>>
             ELSE /\ pc' = "idle"
                  /\ open' = open - 1
                  /\ result' = Cs(r.val)
    /\ UNCHANGED <<api, f, f_res, cs_res, req, prev>>

\* f(&mut self.bus): the closure starts running.
call_f ==
    /\ pc = "call_f"
    /\ pc' = "in_f"
    /\ log' = Append(log, Event("f", "", << >>, None))
    /\ UNCHANGED <<open, csLevel, api, f, f_res, cs_res, result, req, prev>>

BusResults == {Ok(Unit)} \cup {Err(e) : e \in BusErrors}

\* The closure performs one bus operation: any one for a caller-supplied
\* closure, the one of the convenience method otherwise.
bus_op ==
    /\ pc = "in_f"
    /\ \E op \in BusOps : \E args \in BusArgs(op) : \E r \in BusResults :
        /\ IF f.kind = "user"
             THEN Len(BusEvents(log)) < MaxBusOps
             ELSE /\ Len(BusEvents(log)) = 0
                  /\ op = f.op
                  /\ args = f.args
        /\ log' = Append(log, Event("bus", op, args, r))
    /\ UNCHANGED <<pc, open, csLevel, api, f, f_res, cs_res, result, req, prev>>

\* The closure returns: a caller-supplied closure returns any value or bus
\* error, a convenience closure the result of its bus operation.
f_returns ==
    /\ pc = "in_f"
    /\ IF f.kind = "user"
         THEN f_res' \in {Ok(v) : v \in Values} \cup {Err(e) : e \in BusErrors}
         ELSE /\ Len(BusEvents(log)) = 1
              /\ f_res' = BusEvents(log)[1].res
    /\ pc' = "cs_high"
    /\ log' = Append(log, Event("f_ret", "", << >>, f_res'))
    /\ UNCHANGED <<open, csLevel, api, f, cs_res, result, req, prev>>

\* let f_res = f_res.map_err(ExclusiveDeviceError::Spi)?;
\* cs_res.map_err(ExclusiveDeviceError::Cs)?;
\* Ok(f_res)
Propagate_ignore_cs(fr, cr) ==
    IF fr.tag = "Err" THEN Spi(fr.val) ELSE Ok(fr.val)
Propagate_unit(fr, cr) ==
    IF fr.tag = "Err" THEN Spi(fr.val)
    ELSE IF cr.tag = "Err" THEN Cs(cr.val)
    ELSE Ok(Unit)
Propagate_cs_first(fr, cr) ==
    IF cr.tag = "Err" THEN Cs(cr.val)
    ELSE IF fr.tag = "Err" THEN Spi(fr.val)
    ELSE Ok(fr.val)
Propagate(fr, cr) ==
    IF fr.tag = "Err" THEN Spi(fr.val)
    ELSE IF cr.tag = "Err" THEN Cs(cr.val)
    ELSE Ok(fr.val)

\* Variant of set_high that returns a failure of the closure at once, before
\* the pin is driven (f(&mut self.bus).map_err(ExclusiveDeviceError::Spi)?).
set_high_unless_failed ==
    /\ pc = "cs_high"
    /\ IF f_res.tag = "Err"
         THEN /\ result' = Spi(f_res.val)
              /\ UNCHANGED <<csLevel, cs_res, log>>
         ELSE \E r \in PinResults :
                /\ csLevel' \in PinLevelAfter(csLevel, "high", r)
                /\ cs_res' = r
                /\ log' = Append(log, Event("set_high", "", << >>, r))
                /\ result' = Propagate(f_res, r)
    /\ pc' = "idle"
    /\ open' = open - 1
    /\ UNCHANGED <<api, f, f_res, req, prev>>

\* Variant of set_high that panics on a failed pin (self.cs.set_high().unwrap()):
\* the transaction never returns.
set_high_unwrap ==
    /\ pc = "cs_high"
    /\ \E r \in PinResults :
        /\ csLevel' \in PinLevelAfter(csLevel, "high", r)
        /\ cs_res' = r
        /\ log' = Append(log, Event("set_high", "", << >>, r))
        /\ IF r.tag = "Ok"
             THEN /\ result' = Propagate(f_res, r)
                  /\ pc' = "idle"
                  /\ open' = open - 1
             ELSE /\ pc' = "panicked"
                  /\ UNCHANGED <<open, result>>
    /\ UNCHANGED <<api, f, f_res, req, prev>>

\* let cs_res = self.cs.set_high(); then the result is propagated and the
\* transaction returns.
set_high ==
    /\ pc = "cs_high"
    /\ \E r \in PinResults :
        /\ csLevel' \in PinLevelAfter(csLevel, "high", r)
        /\ cs_res' = r
        /\ log' = Append(log, Event("set_high", "", << >>, r))
        /\ result' = Propagate(f_res, r)
    /\ pc' = "idle"
    /\ open' = open - 1
    /\ UNCHANGED <<api, f, f_res, req, prev>>

Next ==
    \/ Transaction
    \/ Write
    \/ Read
    \/ Transfer
    \/ TransferInPlace
    \/ set_low
    \/ call_f
    \/ bus_op
    \/ f_returns
    \/ set_high

Spec == Init /\ [][Next]_vars

\* The blocking model: every call runs on the caller's thread until it
\* returns. A pin operation that was called returns, a closure that was called
\* performs its bus operations and returns, and the statements of transaction
\* follow one another.
Fairness ==
    /\ WF_vars(set_low)
    /\ WF_vars(call_f)
    /\ WF_vars(bus_op)
    /\ WF_vars(f_returns)
    /\ WF_vars(set_high)

FairSpec == Spec /\ Fairness

(***************************************************************************)
(* The impls for `&mut T`: a caller holding a temporary unique reference   *)
(* to a device or to a bus.                                                *)
(***************************************************************************)

\* A call made on T: the operation and its argument list.
Call(op, args) == [op |-> op, args |-> args]

\* <&mut T as SpiDevice>::transaction: T::transaction(self, f)
ref_transaction(g) == transaction(g)

\* <&mut T as SpiBusRead>::read: T::read(self, words)
ref_read(words) == <<Call("read", <<words>>)>>

\* <&mut T as SpiBusWrite>::write: T::write(self, words)
ref_write(words) == <<Call("write", <<words>>)>>

\* <&mut T as SpiBus>::transfer: T::transfer(self, read, write)
ref_transfer(rd, wr) == <<Call("transfer", <<rd, wr>>)>>

\* <&mut T as SpiBus>::transfer_in_place: T::transfer_in_place(self, words)
ref_transfer_in_place_as_read(words) == <<Call("read", <<words>>)>>
ref_transfer_in_place(words) == <<Call("transfer_in_place", <<words>>)>>

\* The calls on T that a bus operation invoked on `&mut T` makes.
RefCalls(op, args) ==
    CASE op = "read" -> ref_read(args[1])
      [] op = "write" -> ref_write(args[1])
      [] op = "transfer" -> ref_transfer(args[1], args[2])
      [] op = "transfer_in_place" -> ref_transfer_in_place(args[1])

\* A caller invokes transaction on a `&mut` to the device, with a closure of
\* its own.
RefTransaction ==
    /\ ref_transaction(UserClosure)
    /\ api' = [name |-> "transaction", args |-> << >>]
    /\ req' = [NoReq EXCEPT !.dev = "ref", !.g = UserClosure]
    /\ UNCHANGED prev

\* The closure invokes one bus operation on a `&mut` to the bus it was lent;
\* the result of the call on T is returned to the closure as it is.
ref_bus_op ==
    /\ pc = "in_f"
    /\ f.kind = "user"
    /\ Len(BusEvents(log)) < MaxBusOps
    /\ \E op \in BusOps : \E args \in BusArgs(op) : \E r \in BusResults :
        LET calls == RefCalls(op, args) IN
        /\ log' = log \o [i \in 1..Len(calls) |->
                              Event("bus", calls[i].op, calls[i].args, r)]
        /\ req' = [req EXCEPT !.n = @ + 1, !.op = op, !.args = args, !.ret = r]
    /\ UNCHANGED <<pc, open, csLevel, api, f, f_res, cs_res, result, prev>>

RefNext ==
    \/ RefTransaction
    \/ set_low
    \/ call_f
    \/ ref_bus_op
    \/ f_returns
    \/ set_high

RefSpec == Init /\ [][RefNext]_vars

(***************************************************************************)
(* A sequence of device operations, each remembered with the way the one   *)
(* before it ended.                                                        *)
(***************************************************************************)

\* How the last transaction ended: not at all yet, with success, with a bus
\* error, with a failed set_low or with a failed set_high.
LastOutcome ==
    IF result = None THEN "none"
    ELSE IF result.tag = "Ok" THEN "ok"
    ELSE IF result.tag = "Spi" THEN "spi"
    ELSE IF Len(log) = 1 THEN "cs_assert"
    ELSE "cs_deassert"

NextWrite ==
    \E buf \in Bufs : write(buf) /\ prev' = LastOutcome /\ UNCHANGED req
NextRead ==
    \E buf \in Bufs : read(buf) /\ prev' = LastOutcome /\ UNCHANGED req
NextTransfer ==
    \E rd \in Bufs, wr \in Bufs :
        transfer(rd, wr) /\ prev' = LastOutcome /\ UNCHANGED req
NextTransferInPlace ==
    \E buf \in Bufs : transfer_in_place(buf) /\ prev' = LastOutcome /\ UNCHANGED req

HistNext ==
    \/ NextWrite
    \/ NextRead
    \/ NextTransfer
    \/ NextTransferInPlace
    \/ set_low
    \/ call_f
    \/ bus_op
    \/ f_returns
    \/ set_high

HistSpec == Init /\ [][HistNext]_vars

TypeOK ==
    /\ pc \in {"idle", "cs_low", "call_f", "in_f", "cs_high"}
    /\ open \in 0..1
    /\ csLevel \in {"high", "low"}

(***************************************************************************)
(* Observations of a transaction, read off its event log.                  *)
(***************************************************************************)

\* The events of one name in a log.
EventsOf(l, name) == SelectSeq(l, LAMBDA e : e.ev = name)

\* The last transaction has returned to its caller.
Returned == pc = "idle" /\ result # None

\* Outcomes of the three steps of the transaction in the log.
AssertOk == Len(log) >= 1 /\ log[1].ev = "set_low" /\ log[1].res.tag = "Ok"
AssertFailed == Len(log) >= 1 /\ log[1].ev = "set_low" /\ log[1].res.tag = "Err"
BodyReturned == Len(EventsOf(log, "f_ret")) >= 1
BodyRes == IF BodyReturned THEN EventsOf(log, "f_ret")[1].res ELSE None
DeassertDone == Len(EventsOf(log, "set_high")) >= 1
DeassertRes == IF DeassertDone THEN EventsOf(log, "set_high")[1].res ELSE None

\* C1: when the body of a transaction fails with a bus error (after a
\* successful assert), set_high is attempted exactly once and the transaction
\* returns that bus error as ExclusiveDeviceError::Spi, whether set_high
\* succeeded or failed.
C1_BusErrorWins ==
    (Returned /\ AssertOk /\ BodyReturned /\ BodyRes.tag = "Err") =>
        /\ Len(EventsOf(log, "set_high")) = 1
        /\ result = Spi(BodyRes.val)

C1_Witness ==
    /\ Returned /\ AssertOk /\ BodyReturned
    /\ BodyRes = Err("bus_frame")
    /\ DeassertDone /\ DeassertRes = Err("pin_b")
    /\ result = Spi("bus_frame")

\* The event names of a log, and the order of a transaction with k bus
\* operations in its body.
Shape(l) == [i \in 1..Len(l) |-> l[i].ev]
Pattern(k) == <<"set_low", "f">> \o [i \in 1..k |-> "bus"] \o <<"f_ret", "set_high">>
IsPrefix(s, t) == Len(s) <= Len(t) /\ \A i \in 1..Len(s) : s[i] = t[i]

\* C2: the events of a transaction are in the order assert, body (its bus
\* operations between its start and its end), deassert; CS is at the active
\* level for as long as the body runs; and a transaction whose assert
\* succeeded returns only after the whole sequence, whatever the body returned.
C2_AssertBodyDeassert ==
    /\ \E k \in 0..MaxBusOps : IsPrefix(Shape(log), Pattern(k))
    /\ pc \in {"call_f", "in_f", "cs_high"} => (AssertOk /\ csLevel = "low")
    /\ pc \in {"call_f", "in_f", "cs_high"} => ~DeassertDone
    /\ (Returned /\ AssertOk) =>
          /\ \E k \in 0..MaxBusOps : Shape(log) = Pattern(k)
          /\ Len(BusEvents(log)) = Len(log) - 4

C2_Witness ==
    /\ Returned /\ AssertOk
    /\ BodyRes.tag = "Err"
    /\ Shape(log) = <<"set_low", "f", "bus", "bus", "f_ret", "set_high">>

\* No pin operation of the last transaction failed.
NoPinFailure ==
    \A i \in 1..Len(log) : log[i].ev \in {"set_low", "set_high"} => log[i].res.tag = "Ok"

\* C3 as stated: whenever no transaction is in progress, CS is at the
\* inactive (high) level, for every combination of assert, body and deassert
\* outcomes.
C3_Original == pc = "idle" => csLevel = "high"

\* C3 as amended: whenever no transaction is in progress and no pin operation
\* of the most recent transaction failed, CS is at the inactive (high) level
\* (the pin having been handed over inactive); after a failed set_high or
\* set_low the level is the one the pin was left at.
C3_InactiveUnlessPinFailed ==
    (pc = "idle" /\ NoPinFailure) => csLevel = "high"

C3_Witness ==
    /\ Returned /\ AssertOk /\ NoPinFailure
    /\ BodyRes.tag = "Err"
    /\ DeassertDone
    /\ csLevel = "high"

\* C4: when set_low fails, the closure is not invoked, no bus operation is
\* performed, and the transaction returns ExclusiveDeviceError::Cs with the
\* pin's error, whose kind is ChipSelectFault.
C4_AssertFailure ==
    AssertFailed =>
        /\ Len(EventsOf(log, "f")) = 0
        /\ Len(BusEvents(log)) = 0
        /\ Returned
        /\ result = Cs(log[1].res.val)
        /\ kind(result) = "ChipSelectFault"

C4_Witness ==
    /\ AssertFailed
    /\ Returned
    /\ result = Cs("pin_a")
    /\ log = <<Event("set_low", "", << >>, Err("pin_a"))>>

\* C5: when the body succeeds and set_high fails, the transaction returns
\* ExclusiveDeviceError::Cs with the pin's error, not the body's value.
C5_DeassertFailure ==
    (Returned /\ AssertOk /\ BodyRes.tag = "Ok" /\ DeassertRes.tag = "Err") =>
        result = Cs(DeassertRes.val)

C5_Witness ==
    /\ Returned /\ AssertOk
    /\ BodyRes = Ok("v1")
    /\ DeassertRes = Err("pin_b")
    /\ result = Cs("pin_b")

\* C6: when set_low, the body and set_high all succeed, the transaction
\* returns the body's value and CS is at the inactive (high) level.
C6_Success ==
    (Returned /\ AssertOk /\ BodyRes.tag = "Ok" /\ DeassertRes.tag = "Ok") =>
        /\ result = Ok(BodyRes.val)
        /\ csLevel = "high"

C6_Witness ==
    /\ Returned /\ AssertOk
    /\ BodyRes = Ok("v2")
    /\ DeassertRes = Ok(Unit)
    /\ result = Ok("v2")
    /\ csLevel = "high"

\* C7: at most one transaction is open at any instant, and a running
\* transaction is never interrupted by the start of another: while one runs,
\* no transaction is entered, its closure stays the same and its events only
\* grow.
C7_Serialized ==
    /\ [](open <= 1 /\ (open = 1 <=> pc # "idle"))
    /\ [][pc # "idle" => (open' <= open /\ f' = f /\ api' = api /\ IsPrefix(log, log'))]_vars

C7_Witness ==
    /\ open = 1
    /\ pc = "in_f"
    /\ csLevel = "low"
    /\ Len(BusEvents(log)) = 1

\* C8: in a transaction set_low is attempted exactly once, the closure is
\* invoked at most once and set_high is attempted at most once; the
\* transaction returns success only when all three succeeded, and otherwise
\* one error, which is the error of one of the failed steps.
C8_NoRetryNoSwallow ==
    /\ Len(EventsOf(log, "set_low")) <= 1
    /\ Len(EventsOf(log, "f")) <= 1
    /\ Len(EventsOf(log, "set_high")) <= 1
    /\ Returned =>
         /\ Len(EventsOf(log, "set_low")) = 1
         /\ result.tag \in {"Ok", "Spi", "Cs"}
         /\ result.tag = "Ok" <=>
               (AssertOk /\ BodyRes.tag = "Ok" /\ DeassertRes.tag = "Ok")
         /\ result.tag = "Spi" => BodyRes = Err(result.val)
         /\ result.tag = "Cs" =>
               \/ AssertFailed /\ log[1].res = Err(result.val)
               \/ DeassertRes = Err(result.val)

C8_Witness ==
    /\ Returned
    /\ Len(EventsOf(log, "set_low")) = 1
    /\ Len(EventsOf(log, "f")) = 1
    /\ BodyRes = Err("bus_other")
    /\ DeassertRes = Err("pin_a")
    /\ result = Spi("bus_other")

\* C9: the kind of Spi(e) is the kind of e as the bus classifies it, the kind
\* of Cs(c) is ChipSelectFault; so the error a transaction returns has the
\* bus error's kind when the body failed and ChipSelectFault when only
\* set_low or set_high failed.
C9_Kind ==
    /\ \A e \in BusErrors : kind(Spi(e)) = BusKind(e)
    /\ \A c \in CsErrors : kind(Cs(c)) = "ChipSelectFault"
    /\ (Returned /\ result.tag # "Ok") =>
         kind(result) = IF BodyRes.tag = "Err" THEN BusKind(BodyRes.val)
                                               ELSE "ChipSelectFault"

C9_Witness ==
    /\ Returned
    /\ BodyRes = Err("bus_frame")
    /\ DeassertRes = Ok(Unit)
    /\ result = Spi("bus_frame")
    /\ kind(result) = "FrameFormat"

\* What device.transaction(|bus| bus.op(args)) returns when its bus operation
\* returns r and set_high returns x.
OneOpResult(r, x) ==
    IF r.tag = "Err" THEN Spi(r.val)
    ELSE IF x.tag = "Err" THEN Cs(x.val)
    ELSE Ok(Unit)

\* C10: write, read, transfer and transfer_in_place are the transaction whose
\* closure performs the one bus operation of that name with the same
\* arguments: the only bus call is that one, it happens between set_low and
\* set_high, and the result is the one of that transaction.
C10_Convenience ==
    api.name \in BusOps =>
        /\ f = BusOpClosure(api.name, api.args)
        /\ Len(BusEvents(log)) <= 1
        /\ \A i \in 1..Len(log) :
              log[i].ev = "bus" => (log[i].op = api.name /\ log[i].args = api.args)
        /\ Returned =>
              \/ \E c \in CsErrors :
                    /\ log = <<Event("set_low", "", << >>, Err(c))>>
                    /\ result = Cs(c)
              \/ \E r \in BusResults : \E x \in PinResults :
                    /\ log = <<Event("set_low", "", << >>, Ok(Unit)),
                               Event("f", "", << >>, None),
                               Event("bus", api.name, api.args, r),
                               Event("f_ret", "", << >>, r),
                               Event("set_high", "", << >>, x)>>
                    /\ result = OneOpResult(r, x)

C10_Witness ==
    /\ Returned
    /\ api = [name |-> "write", args |-> <<<<144>>>>]
    /\ BusEvents(log) = <<Event("bus", "write", <<<<144>>>>, Err("bus_frame"))>>
    /\ Shape(log) = <<"set_low", "f", "bus", "f_ret", "set_high">>
    /\ result = Spi("bus_frame")

\* C11: every started transaction returns a result (a success value or an
\* error), and a transaction that asserted CS goes on to attempt set_high and
\* comes back to idle; it is never left suspended or aborted.
C11_RunsToCompletion ==
    /\ (pc # "idle") ~>
          (Returned /\ result.tag \in {"Ok", "Spi", "Cs"} /\ (AssertOk => DeassertDone))
    /\ [](pc \in {"idle", "cs_low", "call_f", "in_f", "cs_high"})

C11_Witness ==
    /\ Returned /\ AssertOk /\ DeassertDone
    /\ api.name = "read"
    /\ BodyRes = Ok(Unit)
    /\ DeassertRes = Err("pin_a")
    /\ result = Cs("pin_a")

\* C13: in a transaction set_high is attempted if and only if set_low
\* succeeded: set_high never happens without a successful set_low before it,
\* a transaction that asserted CS has attempted set_high when it returns, and
\* a transaction whose set_low failed has returned with set_low as its only
\* call, no bus operation and no set_high.
C13_DeassertIffAsserted ==
    /\ DeassertDone => AssertOk
    /\ Returned => (DeassertDone <=> AssertOk)
    /\ AssertFailed =>
          /\ Returned
          /\ Len(log) = 1
          /\ ~DeassertDone
          /\ Len(BusEvents(log)) = 0

C13_Witness ==
    /\ Returned
    /\ api.name = "transfer"
    /\ log = <<Event("set_low", "", << >>, Err("pin_b"))>>
    /\ ~DeassertDone
    /\ result = Cs("pin_b")

\* What a transaction returns, from the outcomes of its own steps in the log.
OutcomeOfSteps ==
    IF AssertFailed THEN Cs(log[1].res.val)
    ELSE IF BodyRes.tag = "Err" THEN Spi(BodyRes.val)
    ELSE IF DeassertRes.tag = "Err" THEN Cs(DeassertRes.val)
    ELSE Ok(BodyRes.val)

\* C12: operations invoked through `&mut T` behave like the operations of T.
\* transaction on a `&mut` device runs T's transaction with the closure it
\* was given, with the CS and bus activity of that one transaction and its
\* result; each bus operation invoked on a `&mut` bus makes exactly one call
\* on T, of the same operation with the same arguments, and returns T's
\* result.
C12_RefForwards ==
    req.dev = "ref" =>
        /\ f = req.g
        /\ open = IF pc = "idle" THEN 0 ELSE 1
        /\ \E k \in 0..MaxBusOps : IsPrefix(Shape(log), Pattern(k))
        /\ Len(BusEvents(log)) = req.n
        /\ req.n >= 1 =>
              BusEvents(log)[req.n] = Event("bus", req.op, req.args, req.ret)
        /\ Returned => result = OutcomeOfSteps

C12_Witness ==
    /\ req.dev = "ref"
    /\ Returned
    /\ req.n = 2
    /\ req.op = "transfer_in_place"
    /\ req.args = <<<<144>>>>
    /\ req.ret = Ok(Unit)
    /\ BusEvents(log)[2] = Event("bus", "transfer_in_place", <<<<144>>>>, Ok(Unit))
    /\ result = Ok("v1")

\* C14: whatever the outcome of the transaction before it, a transaction
\* starts afresh with set_low as its first call, and what it returns is the
\* outcome of its own set_low, closure and set_high.
C14_NoStateBetweenTransactions ==
    \A p \in {"none", "ok", "spi", "cs_assert", "cs_deassert"} :
        prev = p =>
            /\ pc = "cs_low" =>
                  (log = << >> /\ f_res = None /\ cs_res = None /\ result = None)
            /\ Len(log) >= 1 => log[1].ev = "set_low"
            /\ Returned =>
                  /\ Len(log) >= 1
                  /\ result = OutcomeOfSteps

C14_Witness ==
    /\ prev = "cs_deassert"
    /\ Returned
    /\ AssertOk
    /\ DeassertRes = Ok(Unit)
    /\ result = Ok(Unit)
    /\ csLevel = "high"
====
